---------------------------- MODULE Spec2Model ----------------------------
(***************************************************************************)
(* mdq.py: a semantic search over text files with a persistent cache.      *)
(*                                                                         *)
(* The cache is one SQLite file holding two tables:                        *)
(*   document(path UNIQUE, digest, mtime)   -- the "FileRecord"s           *)
(*   embedding(digest, vec)                 -- the "EmbeddingEntry"s       *)
(* main() is modelled as a sequence of steps (one per statement group of   *)
(* main), so that failures and file changes between the steps are seen.    *)
(* The filesystem is the environment: files are written, removed and       *)
(* chmod-ed between the steps of a run that read the filesystem.           *)
(***************************************************************************)
EXTENDS Integers, Sequences, FiniteSets, TLC

(***************************************************************************)
(* Bounds of the model.                                                    *)
(***************************************************************************)
NumPaths == 2
MaxMtime == 2
MaxRoots == 2
MaxK == 2
MaxCount == 2
MaxRuns == 2
MaxFsOps == 2
MaxRaces == 1

Paths == 1..NumPaths
Mtimes == 1..MaxMtime

\* the root argument naming the directory that holds every file of Paths
Dir == NumPaths + 1
\* the state of a path that is not on disk
Absent == [exists |-> FALSE, content |-> << >>, mtime |-> 0, readable |-> FALSE]

(***************************************************************************)
(* Texts are sequences of characters.                                      *)
(***************************************************************************)
query_prefix == <<"q", "u", "e", "r", "y", ":", " ">>

\* file bodies on disk
Contents == { <<"a">>, <<"b">> }

\* values of the -q option (None when the option is not given)
None == <<"None">>
QueryArgs == { None, << >>, <<" ", "a">> }
\* what standard input holds
StdinTexts == { <<"a", "\n", "b">>, <<"b", "\n">> }

Whitespace == {" ", "\n"}

RECURSIVE lstrip(_)
lstrip(s) ==
    IF s # <<>> /\ Head(s) \in Whitespace THEN lstrip(Tail(s)) ELSE s

RECURSIVE rstrip(_)
rstrip(s) ==
    IF s # <<>> /\ s[Len(s)] \in Whitespace
    THEN rstrip(SubSeq(s, 1, Len(s) - 1))
    ELSE s

\* str.strip()
strip(s) == rstrip(lstrip(s))

\* sys.stdin.readline(): the input up to and including its first newline
RECURSIVE readline(_)
readline(s) ==
    IF s = <<>> THEN <<>>
    ELSE IF Head(s) = "\n" THEN <<"\n">>
    ELSE <<Head(s)>> \o readline(Tail(s))

\* a variant of get_options() that does not strip the query text
get_options_query_unstripped(qarg, stdin) ==
    LET query_str == IF qarg # None /\ qarg # <<>> THEN qarg
                     ELSE readline(stdin)
    IN  query_prefix \o query_str

\* get_options(): the query string handed to the embedding model
get_options_query(qarg, stdin) ==
    LET query_str == IF qarg # None /\ qarg # <<>> THEN qarg
                     ELSE readline(stdin)
    IN  query_prefix \o strip(query_str)

(***************************************************************************)
(* The embedding model: a fixed, deterministic map from a text to a        *)
(* vector.  Vectors are points on a line, the distance is the absolute     *)
(* difference.                                                             *)
(***************************************************************************)
Code(ch) ==
    CASE ch = "a" -> 1
      [] ch = "b" -> 4
      [] ch = "q" -> 2
      [] OTHER -> 0

RECURSIVE embed_text(_)
embed_text(text) ==
    IF text = <<>> THEN 0 ELSE Code(Head(text)) + embed_text(Tail(text))

\* embed_model.embed(batch): one vector per text, in the order of the batch
embed(batch) == [i \in 1..Len(batch) |-> embed_text(batch[i])]

distance(u, v) == IF u >= v THEN u - v ELSE v - u

\* digest(path): SHA-256 of the bytes of the file
digest(content) == <<"sha256">> \o content


(***************************************************************************)
(* State.                                                                  *)
(***************************************************************************)
VARIABLES
    fs,                          \* the files on disk, by path
    document,                    \* table document: path -> (digest, mtime)
    embedding,                   \* table embedding: rows (digest, vec) by rowid
    pc,                          \* where main() stands
    failure,                     \* the exception that ended the last run
    options,                     \* get_options()
    all_text_file_paths,         \* main: get_text_file_paths(options)
    updated_text_file_metadatas, \* main: get_outdated_paths(...)
    need_embedding_metadatas,    \* main: the metadatas without an embedding
    embed_docs,                  \* main: the texts read for embedding
    embeddings,                  \* main: the vectors computed
    results,                     \* main: the rows of the query, in order
    document0,                   \* table document when the run started
    embedding0,                  \* table embedding when the run started
    embed_count,                 \* per content: document embeddings computed
    fs_changed,                  \* a file changed since the run started
    rerun,                       \* this run repeats a completed run unchanged
    runs,                        \* runs started
    fs_ops,                      \* file changes made
    races,                       \* file changes made while this run runs
    query_input                  \* the -q value and standard input of the run

vars == << fs, document, embedding, pc, failure, options,
           all_text_file_paths, updated_text_file_metadatas,
           need_embedding_metadatas, embed_docs, embeddings, results,
           document0, embedding0, embed_count, fs_changed, rerun,
           runs, fs_ops, races, query_input >>

db_vars == << document, embedding >>
run_vars == << options, all_text_file_paths, updated_text_file_metadatas,
               need_embedding_metadatas, embed_docs, embeddings, results >>
start_vars == << document0, embedding0, runs, races >>

Range(s) == { s[i] : i \in 1..Len(s) }

\* the query input of a run that has not reached its query
NoInput == [query |-> None, stdin |-> << >>]

\* option values: -p roots, the query string, -k
Roots == UNION { [1..n -> Paths \cup {Dir}] : n \in 1..MaxRoots }

(***************************************************************************)
(* initialize_db() on a new cache: both tables exist and are empty.  The   *)
(* run has not started.  No file is on disk yet.                           *)
(***************************************************************************)
Init ==
    /\ fs = [p \in Paths |-> Absent]
    /\ document = << >>
    /\ embedding = << >>
    /\ pc = "idle"
    /\ failure = "none"
    /\ options = [paths |-> << >>, query |-> None, n_matches |-> 0]
    /\ all_text_file_paths = << >>
    /\ updated_text_file_metadatas = << >>
    /\ need_embedding_metadatas = << >>
    /\ embed_docs = << >>
    /\ embeddings = << >>
    /\ results = << >>
    /\ document0 = << >>
    /\ embedding0 = << >>
    /\ embed_count = [c \in Contents |-> 0]
    /\ fs_changed = FALSE
    /\ rerun = FALSE
    /\ runs = 0
    /\ fs_ops = 0
    /\ races = 0
    /\ query_input = NoInput

(***************************************************************************)
(* The environment: files change on disk.  A change commutes with every    *)
(* step of main() that does not touch the filesystem, so changes are       *)
(* interleaved only before the steps that read it: globbing, stat/digest   *)
(* and read_text.                                                          *)
(***************************************************************************)
ReadsFilesNext == pc \in {"idle", "discovered", "selected"}

FsStep(p, file) ==
    /\ ReadsFilesNext
    /\ fs_ops < MaxFsOps
    /\ fs_ops' = fs_ops + 1
    /\ pc # "idle" => races < MaxRaces
    /\ races' = IF pc = "idle" THEN races ELSE races + 1
    /\ fs' = [fs EXCEPT ![p] = file]
    /\ fs_changed' = TRUE
    /\ rerun' = FALSE
    /\ UNCHANGED << db_vars, pc, failure, run_vars, document0, embedding0,
                    runs, embed_count, query_input >>

\* a file is created, with or without read permission, or rewritten in
\* place; the writer sets content and mtime
WriteFile(p, c, m, r) ==
    LET file == [exists |-> TRUE, content |-> c, mtime |-> m, readable |-> r]
    IN  /\ fs[p] # file
        /\ fs[p].exists => r = fs[p].readable
        /\ FsStep(p, file)

RemoveFile(p) ==
    /\ fs[p].exists
    /\ FsStep(p, Absent)

\* read permission is taken from or given back to the file
Chmod(p) ==
    /\ fs[p].exists
    /\ FsStep(p, [fs[p] EXCEPT !.readable = ~ fs[p].readable])

(***************************************************************************)
(* main(), lines 23-29: the options are parsed and the roots are expanded  *)
(* to the list of text files.                                              *)
(***************************************************************************)
is_file(path) == path # Dir /\ fs[path].exists
is_dir(path) == path = Dir

\* path.glob(): the files under the directory, each once
glob == SelectSeq([i \in 1..NumPaths |-> i], LAMBDA p : fs[p].exists)

RECURSIVE inner_paths(_)
inner_paths(paths) ==
    IF paths = << >> THEN << >>
    ELSE (IF is_file(Head(paths)) THEN << Head(paths) >> ELSE glob)
         \o inner_paths(Tail(paths))

\* a variant that looks at the first root only
raises_ValueError_first(paths) ==
    ~ is_file(paths[1]) /\ ~ is_dir(paths[1])

\* a root that is neither a file nor a directory raises ValueError
raises_ValueError(paths) ==
    \E i \in 1..Len(paths) : ~ is_file(paths[i]) /\ ~ is_dir(paths[i])

get_text_file_paths(opts) == inner_paths(opts.paths)

StartRun(opts) ==
    /\ runs < MaxRuns
    /\ runs' = runs + 1
    /\ races' = 0
    /\ options' = opts
    /\ document0' = document
    /\ embedding0' = embedding
    /\ fs_changed' = FALSE
    /\ updated_text_file_metadatas' = << >>
    /\ need_embedding_metadatas' = << >>
    /\ embed_docs' = << >>
    /\ embeddings' = << >>
    /\ results' = << >>
    /\ UNCHANGED << fs, db_vars, embed_count, fs_ops, query_input >>

\* options.query and options.n_matches are read by the query only (lines
\* 83-100) and are drawn there; until then they are unset.
Discover(roots) ==
    LET opts == [paths |-> roots, query |-> None, n_matches |-> 0]
    IN  /\ pc = "idle"
        /\ ~ raises_ValueError(roots)
        /\ StartRun(opts)
        /\ all_text_file_paths' = get_text_file_paths(opts)
        /\ rerun' = ( /\ runs > 0
                      /\ failure = "none"
                      /\ ~ fs_changed
                      /\ Range(get_text_file_paths(opts))
                            = Range(all_text_file_paths) )
        /\ pc' = "discovered"
        /\ failure' = "none"

DiscoverInvalid(roots) ==
    LET opts == [paths |-> roots, query |-> None, n_matches |-> 0]
    IN  /\ pc = "idle"
        /\ raises_ValueError(roots)
        /\ StartRun(opts)
        /\ all_text_file_paths' = << >>
        /\ rerun' = FALSE
        /\ pc' = "failed"
        /\ failure' = "ValueError"

(***************************************************************************)
(* get_outdated_paths(), lines 184-210.                                    *)
(***************************************************************************)
\* a variant of outdated that re-hashes the file instead of trusting the mtime
outdated_by_digest(path) ==
    ~ ( /\ path \in DOMAIN document
        /\ document[path].digest = digest(fs[path].content) )

\* the row of table document for a path is missing or has another mtime
outdated(path) ==
    ~ ( path \in DOMAIN document /\ document[path].mtime = fs[path].mtime )

\* path.stat() raises on a file that is gone
raises_stat(paths) == \E i \in 1..Len(paths) : ~ fs[paths[i]].exists

\* digest(path) raises on a file that cannot be opened for reading; it is
\* only called for the outdated paths
raises_digest(paths) ==
    \E i \in 1..Len(paths) :
        /\ fs[paths[i]].exists
        /\ outdated(paths[i])
        /\ ~ fs[paths[i]].readable

DocumentMetadata(path) ==
    [path |-> path, digest |-> digest(fs[path].content),
     mtime |-> fs[path].mtime]

RECURSIVE inner_outdated(_)
inner_outdated(paths) ==
    IF paths = << >> THEN << >>
    ELSE (IF outdated(Head(paths)) THEN << DocumentMetadata(Head(paths)) >>
          ELSE << >>)
         \o inner_outdated(Tail(paths))

get_outdated_paths(paths) == inner_outdated(paths)

Classify ==
    /\ pc = "discovered"
    /\ ~ raises_stat(all_text_file_paths)
    /\ ~ raises_digest(all_text_file_paths)
    /\ updated_text_file_metadatas' = get_outdated_paths(all_text_file_paths)
    /\ pc' = "classified"
    /\ UNCHANGED << fs, db_vars, failure, options, all_text_file_paths,
                    need_embedding_metadatas, embed_docs, embeddings, results,
                    start_vars, embed_count, fs_changed, rerun,
                    fs_ops, query_input >>

Fail(reason) ==
    /\ pc' = "failed"
    /\ failure' = reason
    /\ UNCHANGED << fs, db_vars, run_vars, start_vars, embed_count,
                    fs_changed, rerun,
                    fs_ops, query_input >>

ClassifyFails ==
    /\ pc = "discovered"
    /\ \/ raises_stat(all_text_file_paths)
       \/ raises_digest(all_text_file_paths)
    /\ Fail("OSError")

(***************************************************************************)
(* main(), lines 36-46: the first transaction.  INSERT OR IGNORE followed  *)
(* by UPDATE, per metadata in list order: the row of a path ends up with   *)
(* the digest and mtime of the last metadata of that path.                 *)
(***************************************************************************)
\* a variant of upsert whose UPDATE leaves the mtime of the row alone
RECURSIVE upsert_keeps_mtime(_, _)
upsert_keeps_mtime(table, metadatas) ==
    IF metadatas = << >> THEN table
    ELSE LET m == Head(metadatas)
             row == [digest |-> m.digest,
                     mtime |-> IF m.path \in DOMAIN table
                               THEN table[m.path].mtime ELSE 0]
         IN  upsert_keeps_mtime([p \in DOMAIN table \cup {m.path} |->
                                    IF p = m.path THEN row ELSE table[p]],
                                Tail(metadatas))

RECURSIVE upsert(_, _)
upsert(table, metadatas) ==
    IF metadatas = << >> THEN table
    ELSE LET m == Head(metadatas)
             row == [digest |-> m.digest, mtime |-> m.mtime]
         IN  upsert([p \in DOMAIN table \cup {m.path} |->
                        IF p = m.path THEN row ELSE table[p]],
                    Tail(metadatas))

CommitMetadata ==
    /\ pc = "classified"
    /\ document' = upsert(document, updated_text_file_metadatas)
    /\ pc' = "committed"
    /\ UNCHANGED << fs, embedding, failure, run_vars, start_vars,
                    embed_count, fs_changed, rerun,
                    fs_ops, query_input >>

(***************************************************************************)
(* main(), lines 48-63: the metadatas whose digest has no row in table     *)
(* embedding.                                                              *)
(***************************************************************************)
digests_of(table) == { table[i].digest : i \in 1..Len(table) }

has_embedding(metadata) == metadata.digest \in digests_of(embedding)

\* a variant of the selection that does not look into table embedding
select_every_metadata(metadatas) == metadatas

select_need_embedding(metadatas) ==
    SelectSeq(metadatas, LAMBDA m : ~ has_embedding(m))

SelectNeedEmbedding ==
    /\ pc = "committed"
    /\ need_embedding_metadatas'
          = select_need_embedding(updated_text_file_metadatas)
    /\ pc' = "selected"
    /\ UNCHANGED << fs, db_vars, failure, options, all_text_file_paths,
                    updated_text_file_metadatas, embed_docs, embeddings,
                    results, start_vars, embed_count, fs_changed, rerun,
                    fs_ops, query_input >>

(***************************************************************************)
(* main(), lines 66-68: read_text() of every metadata that needs an        *)
(* embedding; it raises on a file that is gone or unreadable.              *)
(***************************************************************************)
raises_read_text(metadatas) ==
    \E i \in 1..Len(metadatas) :
        \/ ~ fs[metadatas[i].path].exists
        \/ ~ fs[metadatas[i].path].readable

read_texts(metadatas) ==
    [i \in 1..Len(metadatas) |-> fs[metadatas[i].path].content]

ReadDocs ==
    /\ pc = "selected"
    /\ ~ raises_read_text(need_embedding_metadatas)
    /\ embed_docs' = read_texts(need_embedding_metadatas)
    /\ pc' = "read"
    /\ UNCHANGED << fs, db_vars, failure, options, all_text_file_paths,
                    updated_text_file_metadatas, need_embedding_metadatas,
                    embeddings, results, start_vars, embed_count, fs_changed,
                    rerun,
                    fs_ops, query_input >>

ReadDocsFails ==
    /\ pc = "selected"
    /\ raises_read_text(need_embedding_metadatas)
    /\ Fail("OSError")

(***************************************************************************)
(* main(), line 69: one batched call of the embedding model.  The model    *)
(* may fail on a batch (backend error); then nothing is returned.          *)
(***************************************************************************)
occurrences(seq, x) == Cardinality({ i \in 1..Len(seq) : seq[i] = x })

count_embedded(count, batch) ==
    [c \in Contents |->
        IF count[c] + occurrences(batch, c) > MaxCount THEN MaxCount
        ELSE count[c] + occurrences(batch, c)]

EmbedDocs ==
    /\ pc = "read"
    /\ embeddings' = embed(embed_docs)
    /\ embed_count' = count_embedded(embed_count, embed_docs)
    /\ pc' = "embedded"
    /\ UNCHANGED << fs, db_vars, failure, options, all_text_file_paths,
                    updated_text_file_metadatas, need_embedding_metadatas,
                    embed_docs, results, start_vars, fs_changed, rerun,
                    fs_ops, query_input >>

EmbedFails ==
    /\ pc = "read"
    /\ embed_docs # << >>
    /\ Fail("EmbedError")

(***************************************************************************)
(* main(), lines 72-81: the second transaction, a plain INSERT of one row  *)
(* per metadata that needed an embedding.  Column digest is declared       *)
(* UNIQUE in a vec0 virtual table: a build of sqlite-vec that enforces it  *)
(* raises IntegrityError on a repeated digest and the transaction is       *)
(* rolled back; a build that ignores it adds the row.  Both are modelled.  *)
(***************************************************************************)
zip_rows(metadatas, vecs) ==
    [i \in 1..Len(metadatas) |->
        [digest |-> metadatas[i].digest, vec |-> vecs[i]]]

repeats_digest(table, rows) ==
    \/ \E i \in 1..Len(rows) : rows[i].digest \in digests_of(table)
    \/ \E i, j \in 1..Len(rows) : i < j /\ rows[i].digest = rows[j].digest

\* a variant of the second transaction that rebuilds table embedding from
\* the batch
CommitEmbeddingsRebuild ==
    LET rows == zip_rows(need_embedding_metadatas, embeddings)
    IN  /\ pc = "embedded"
        /\ embedding' = rows
        /\ pc' = "indexed"
        /\ UNCHANGED << fs, document, failure, run_vars,
                        start_vars, embed_count, fs_changed, rerun,
                        fs_ops, query_input >>

CommitEmbeddings ==
    LET rows == zip_rows(need_embedding_metadatas, embeddings)
    IN  /\ pc = "embedded"
        /\ embedding' = embedding \o rows
        /\ pc' = "indexed"
        /\ UNCHANGED << fs, document, failure, run_vars,
                        start_vars, embed_count, fs_changed, rerun,
                    fs_ops, query_input >>

CommitEmbeddingsFails ==
    /\ pc = "embedded"
    /\ repeats_digest(embedding,
                      zip_rows(need_embedding_metadatas, embeddings))
    /\ Fail("IntegrityError")

\* the process is killed in the middle of a run
Abort ==
    /\ pc \in {"discovered", "classified", "committed", "selected", "read",
               "embedded", "indexed"}
    /\ Fail("Killed")

(***************************************************************************)
(* main(), lines 83-102: the query.  The vec0 table answers                *)
(* "vec MATCH ? AND k = ?" with the k nearest of its rows; the filter on   *)
(* document.path is a constraint of the other table of the join.  SQLite   *)
(* may run the join either way round:                                      *)
(*   "knn_outer"  the k nearest rows of embedding, each joined to the      *)
(*                documents of its digest whose path is in the list;       *)
(*   "knn_inner"  for each document whose path is in the list, the k       *)
(*                nearest among the rows of embedding with its digest.     *)
(* Rows come out ORDER BY distance; equal distances keep the order in      *)
(* which the join produced them.                                           *)
(***************************************************************************)
QueryPlans == {"knn_outer", "knn_inner"}

RECURSIVE insert_by_distance(_, _)
insert_by_distance(sorted, row) ==
    IF sorted = << >> THEN << row >>
    ELSE IF Head(sorted).distance <= row.distance
         THEN << Head(sorted) >> \o insert_by_distance(Tail(sorted), row)
         ELSE << row >> \o sorted

RECURSIVE order_by_distance(_)
order_by_distance(rows) ==
    IF rows = << >> THEN << >>
    ELSE insert_by_distance(
             order_by_distance(SubSeq(rows, 1, Len(rows) - 1)),
             rows[Len(rows)])

first_k(rows, k) == SubSeq(rows, 1, IF k < Len(rows) THEN k ELSE Len(rows))

\* vec MATCH q AND k = k, over the given rows of the vec0 table
knn(rows, q, k) ==
    LET dist_rows == [i \in 1..Len(rows) |->
                        [digest |-> rows[i].digest,
                         distance |-> distance(rows[i].vec, q)]]
    IN  first_k(order_by_distance(dist_rows), k)

\* a variant of the join without the filter document.path IN (paths)
documents_in_any(paths) ==
    SelectSeq([i \in 1..NumPaths |-> i], LAMBDA p : p \in DOMAIN document)

\* document rows, by path, restricted to document.path IN (paths)
documents_in(paths) ==
    SelectSeq([i \in 1..NumPaths |-> i],
              LAMBDA p : p \in DOMAIN document /\ p \in Range(paths))

RECURSIVE flatten(_)
flatten(seqs) ==
    IF seqs = << >> THEN << >> ELSE Head(seqs) \o flatten(Tail(seqs))

join_knn_outer(paths, q, k) ==
    LET nearest == knn(embedding, q, k)
        docs == documents_in(paths)
        joined(r) ==
            LET ps == SelectSeq(docs,
                                LAMBDA p : document[p].digest = r.digest)
            IN  [i \in 1..Len(ps) |->
                    [path |-> ps[i], distance |-> r.distance]]
    IN  flatten([i \in 1..Len(nearest) |-> joined(nearest[i])])

join_knn_inner(paths, q, k) ==
    LET docs == documents_in(paths)
        joined(p) ==
            LET rs == knn(SelectSeq(embedding,
                              LAMBDA r : r.digest = document[p].digest), q, k)
            IN  [i \in 1..Len(rs) |->
                    [path |-> p, distance |-> rs[i].distance]]
    IN  flatten([i \in 1..Len(docs) |-> joined(docs[i])])

select_paths(plan, paths, q, k) ==
    order_by_distance(IF plan = "knn_outer" THEN join_knn_outer(paths, q, k)
                      ELSE join_knn_inner(paths, q, k))

\* line 83: the vector of the query
query_embed(opts) == embed(<< opts.query >>)[1]

Query(plan, qarg, stdin, k) ==
    LET opts == [paths |-> options.paths,
                 query |-> get_options_query(qarg, stdin), n_matches |-> k]
    IN
    /\ pc = "indexed"
    /\ options' = opts
    /\ query_input' = [query |-> qarg, stdin |-> stdin]
    /\ results' = select_paths(plan, all_text_file_paths, query_embed(opts),
                               opts.n_matches)
    /\ pc' = "done"
    /\ UNCHANGED << fs, db_vars, failure, all_text_file_paths,
                    updated_text_file_metadatas, need_embedding_metadatas,
                    embed_docs, embeddings, start_vars, embed_count,
                    fs_changed, rerun,
                    fs_ops >>

\* main() returns or the exception ends the process: what the run held in
\* memory is gone, the cache file and the files stay
Exit ==
    /\ pc \in {"done", "failed"}
    /\ pc' = "idle"
    /\ options' = [paths |-> << >>, query |-> None, n_matches |-> 0]
    /\ updated_text_file_metadatas' = << >>
    /\ need_embedding_metadatas' = << >>
    /\ embed_docs' = << >>
    /\ embeddings' = << >>
    /\ results' = << >>
    /\ document0' = document
    /\ embedding0' = embedding
    /\ races' = 0
    /\ query_input' = NoInput
    /\ UNCHANGED << fs, db_vars, failure, all_text_file_paths, embed_count,
                    fs_changed, rerun, runs, fs_ops >>

(***************************************************************************)
(* The program and its environment.                                        *)
(***************************************************************************)
Next ==
    \/ \E p \in Paths, c \in Contents, m \in Mtimes, r \in BOOLEAN :
          WriteFile(p, c, m, r)
    \/ \E p \in Paths : RemoveFile(p)
    \/ \E p \in Paths : Chmod(p)
    \/ \E roots \in Roots : Discover(roots)
    \/ \E roots \in Roots : DiscoverInvalid(roots)
    \/ Classify
    \/ ClassifyFails
    \/ CommitMetadata
    \/ SelectNeedEmbedding
    \/ ReadDocs
    \/ ReadDocsFails
    \/ EmbedDocs
    \/ EmbedFails
    \/ CommitEmbeddings
    \/ CommitEmbeddingsFails
    \/ \E plan \in QueryPlans, qarg \in QueryArgs, stdin \in StdinTexts,
          k \in 1..MaxK : Query(plan, qarg, stdin, k)
    \/ Abort
    \/ Exit

Spec == Init /\ [][Next]_vars

TypeOK ==
    /\ \A p \in Paths : fs[p].exists => fs[p].content \in Contents
    /\ DOMAIN document \subseteq Paths
    /\ pc \in {"idle", "discovered", "classified", "committed", "selected",
               "read", "embedded", "indexed", "done", "failed"}
    /\ Len(results) <= 4 * NumPaths

(***************************************************************************)
(* Notions the properties share.                                           *)
(***************************************************************************)
paths_of(metadatas) == { metadatas[i].path : i \in 1..Len(metadatas) }

\* the set S of discovered paths
discovered == Range(all_text_file_paths)

\* the run has classified its paths and has not failed since
Classified ==
    pc \in {"classified", "committed", "selected", "read", "embedded",
            "indexed", "done"}

Selected == pc \in {"selected", "read", "embedded", "indexed", "done"}

same_record(p, table1, table2) ==
    /\ p \in DOMAIN table1 <=> p \in DOMAIN table2
    /\ p \in DOMAIN table1 => table1[p] = table2[p]

no_repeated_digest(table) ==
    \A i, j \in 1..Len(table) : i # j => table[i].digest # table[j].digest

(***************************************************************************)
(* C1  Content dedup: every content is embedded at most once over all runs *)
(* and every digest has at most one row in table embedding, also when      *)
(* several outdated paths of one run (or one path discovered twice) carry  *)
(* the same not yet cached content.                                        *)
(***************************************************************************)
C1_EmbeddedAtMostOnce ==
    /\ \A c \in Contents : embed_count[c] <= 1
    /\ no_repeated_digest(embedding)

(***************************************************************************)
(* C2  Atomicity under embedding failure: after a run in which the         *)
(* embedding model failed, the rows of table document of the paths whose   *)
(* content was to be embedded are what they were before the run.           *)
(***************************************************************************)
C2_NoRecordAfterEmbedFailure ==
    (pc = "failed" /\ failure = "EmbedError") =>
        \A p \in paths_of(need_embedding_metadatas) :
            same_record(p, document, document0)

(***************************************************************************)
(* C3  Referential integrity: whenever no run is in progress, also after a *)
(* run that was aborted, the digest of every row of table document has a   *)
(* row in table embedding.                                                 *)
(***************************************************************************)
C3_ReferentialIntegrity ==
    pc \in {"idle", "done", "failed"} =>
        \A p \in DOMAIN document :
            document[p].digest \in digests_of(embedding)

(***************************************************************************)
(* C4  Scoping: the query over the discovered paths returns only           *)
(* discovered paths, also when table document and table embedding hold a   *)
(* path outside that set that is nearer to the query.                      *)
(***************************************************************************)
C4_Scoping ==
    pc = "done" =>
        \A i \in 1..Len(results) : results[i].path \in discovered

\* distances from the query to the rows of embedding joined to a path
distances_of(p) ==
    { distance(embedding[i].vec, query_embed(options)) :
        i \in { j \in 1..Len(embedding) :
                    embedding[j].digest = document[p].digest } }

\* a path outside S is cached and strictly nearer than the first result
C4_Witness ==
    /\ pc = "done"
    /\ results # << >>
    /\ \E p \in DOMAIN document \ discovered :
          \E d \in distances_of(p) : d < results[1].distance

(***************************************************************************)
(* C5  Restriction before ranking: the result is exactly the min(k, n)     *)
(* nearest, in ascending order of distance, of the n discovered paths      *)
(* whose row of table document joins a row of table embedding.  (Stated    *)
(* for a table embedding in which no digest is repeated.)                  *)
(***************************************************************************)
candidates ==
    { p \in discovered \cap DOMAIN document :
          document[p].digest \in digests_of(embedding) }

path_distance(p) == CHOOSE d \in distances_of(p) : TRUE

C5_NearestOfScope ==
    (pc = "done" /\ no_repeated_digest(embedding)) =>
        LET n == Cardinality(candidates)
            k == options.n_matches
            returned == { results[i].path : i \in 1..Len(results) }
        IN  /\ Len(results) = (IF k < n THEN k ELSE n)
            /\ returned \subseteq candidates
            /\ \A i, j \in 1..Len(results) :
                  i < j => /\ results[i].path # results[j].path
                           /\ results[i].distance <= results[j].distance
            /\ \A i \in 1..Len(results) :
                  results[i].distance = path_distance(results[i].path)
            /\ \A p \in candidates \ returned, i \in 1..Len(results) :
                  results[i].distance <= path_distance(p)

(***************************************************************************)
(* C6  Truncation: the query returns at most k paths, also when several    *)
(* discovered paths share one digest.                                      *)
(***************************************************************************)
C6_AtMostK ==
    pc = "done" => Len(results) <= options.n_matches

(***************************************************************************)
(* C7  Idempotence: a run that repeats a completed run over the same set   *)
(* of paths, with no file changed since that run started, classifies no    *)
(* path as outdated, embeds nothing and leaves both tables as they were.   *)
(***************************************************************************)
C7_Idempotence ==
    rerun =>
        /\ updated_text_file_metadatas = << >>
        /\ need_embedding_metadatas = << >>
        /\ embed_docs = << >>
        /\ embeddings = << >>
        /\ document = document0
        /\ embedding = embedding0

\* the repeated run has completed over a set of paths that all have a row
C7_Witness ==
    /\ rerun
    /\ pc = "done"
    /\ discovered # {}
    /\ discovered \subseteq DOMAIN document
    /\ embedding # << >>

(***************************************************************************)
(* C8  Cached-digest reuse: an outdated path whose fresh digest had a row  *)
(* in table embedding when the run started gets its row of table document  *)
(* set to the fresh digest and mtime, and is neither read for embedding    *)
(* nor embedded.                                                           *)
(***************************************************************************)
C8_CachedDigestReuse ==
    Selected =>
        \A i \in 1..Len(updated_text_file_metadatas) :
            LET m == updated_text_file_metadatas[i] IN
            m.digest \in digests_of(embedding0) =>
                /\ m.path \in DOMAIN document
                /\ document[m.path] = [digest |-> m.digest, mtime |-> m.mtime]
                /\ m.path \notin paths_of(need_embedding_metadatas)
                /\ \A j \in 1..Len(need_embedding_metadatas) :
                      need_embedding_metadatas[j].digest # m.digest
                /\ Len(embed_docs) <= Len(need_embedding_metadatas)

\* a completed run has created or changed the row of such a path
C8_Witness ==
    /\ pc = "done"
    /\ \E i \in 1..Len(updated_text_file_metadatas) :
          LET m == updated_text_file_metadatas[i] IN
          /\ m.digest \in digests_of(embedding0)
          /\ ~ same_record(m.path, document, document0)

(***************************************************************************)
(* C9  mtime trust: a discovered path is classified outdated exactly when  *)
(* it has no row in table document or the row's mtime differs from the     *)
(* file's; a path that is not outdated is not read for embedding and keeps *)
(* its row, whatever its content is now.                                   *)
(***************************************************************************)
C9_MtimeTrust ==
    /\ pc = "classified" =>
          \A p \in discovered :
              p \in paths_of(updated_text_file_metadatas)
                  <=> ( p \notin DOMAIN document
                        \/ document[p].mtime # fs[p].mtime )
    /\ Classified =>
          \A p \in discovered \ paths_of(updated_text_file_metadatas) :
              /\ p \in DOMAIN document0
              /\ same_record(p, document, document0)
              /\ p \notin paths_of(need_embedding_metadatas)

\* a completed run has left alone a path whose content has changed
C9_Witness ==
    /\ pc = "done"
    /\ \E p \in discovered \ paths_of(updated_text_file_metadatas) :
          /\ fs[p].exists
          /\ fs[p].mtime = document[p].mtime
          /\ digest(fs[p].content) # document[p].digest

(***************************************************************************)
(* C10  Skip and continue: a run does not end in the error of an           *)
(* unreadable file while another discovered file is readable.              *)
(***************************************************************************)
C10_SkipAndContinue ==
    (pc = "failed" /\ failure = "OSError") =>
        ~ \E p \in discovered : fs[p].exists /\ fs[p].readable

(***************************************************************************)
(* C11  Invalid path fails fast: a run is given a root that is neither a   *)
(* file nor a directory, at whatever position, exactly when it ends in     *)
(* ValueError; it has then classified no path, embedded nothing and left   *)
(* both tables as they were.                                               *)
(***************************************************************************)
valid_root(path) == (path \in Paths /\ fs[path].exists) \/ path = Dir

C11_InvalidPathFailsFast ==
    /\ (pc = "failed" /\ failure = "ValueError") =>
          /\ \E i \in 1..Len(options.paths) : ~ valid_root(options.paths[i])
          /\ all_text_file_paths = << >>
          /\ updated_text_file_metadatas = << >>
          /\ need_embedding_metadatas = << >>
          /\ embed_docs = << >>
          /\ embeddings = << >>
          /\ document = document0
          /\ embedding = embedding0
    /\ (pc = "discovered" /\ races = 0) =>
          \A i \in 1..Len(options.paths) : valid_root(options.paths[i])

\* the bad root comes after a good one, and the cache is not empty
C11_Witness ==
    /\ pc = "failed"
    /\ failure = "ValueError"
    /\ Len(options.paths) > 1
    /\ valid_root(options.paths[1])
    /\ ~ valid_root(options.paths[Len(options.paths)])
    /\ document # << >>
    /\ embedding # << >>

(***************************************************************************)
(* C12  The commit of the embedding batch is an insert-if-absent: a batch  *)
(* holding a digest that is already in table embedding, or earlier in the  *)
(* batch, raises no error, leaves the vector stored for that digest as it  *)
(* was, and still commits every other row of the batch.                    *)
(***************************************************************************)
RECURSIVE insert_if_absent(_, _)
insert_if_absent(table, rows) ==
    IF rows = << >> THEN table
    ELSE insert_if_absent(
             IF Head(rows).digest \in digests_of(table)
                 THEN table
                 ELSE Append(table, Head(rows)),
             Tail(rows))

C12_InsertIfAbsent ==
    /\ ~ (pc = "failed" /\ failure = "IntegrityError")
    /\ pc \in {"indexed", "done"} =>
          embedding = insert_if_absent(
                          embedding0,
                          zip_rows(need_embedding_metadatas, embeddings))

(***************************************************************************)
(* C13  Query prefixing: the string embedded for the query is the prefix   *)
(* "query: " followed by the query text without its leading and trailing   *)
(* whitespace, the text being the value of -q when one is given and the    *)
(* first line of standard input when -q is absent; the printed rows are    *)
(* those of the query for that string, so both routes print the same rows  *)
(* for the same text.                                                      *)
(***************************************************************************)
\* body is text without its leading and trailing whitespace
is_stripped(body, text) ==
    \E i, j \in 0..Len(text) :
        /\ i <= j \/ body = << >>
        /\ body = SubSeq(text, i + 1, j)
        /\ \A n \in 1..i : text[n] \in Whitespace
        /\ \A n \in (j + 1)..Len(text) : text[n] \in Whitespace
        /\ body # << >> =>
              body[1] \notin Whitespace /\ body[Len(body)] \notin Whitespace

\* line is s up to and including its first newline
is_first_line(line, s) ==
    \E n \in 0..Len(s) :
        /\ line = SubSeq(s, 1, n)
        /\ \A m \in 1..(n - 1) : s[m] # "\n"
        /\ n = Len(s) \/ (n > 0 /\ s[n] = "\n")

is_query_of(query, text) ==
    /\ Len(query) >= Len(query_prefix)
    /\ SubSeq(query, 1, Len(query_prefix)) = query_prefix
    /\ is_stripped(SubSeq(query, Len(query_prefix) + 1, Len(query)), text)

C13_QueryPrefixing ==
    pc = "done" =>
        /\ query_input.query \notin {None, << >>} =>
              is_query_of(options.query, query_input.query)
        /\ query_input.query = None =>
              \E line \in { SubSeq(query_input.stdin, 1, n) :
                                n \in 0..Len(query_input.stdin) } :
                  /\ is_first_line(line, query_input.stdin)
                  /\ is_query_of(options.query, line)
        /\ \E plan \in QueryPlans :
              results = select_paths(plan, all_text_file_paths,
                                     embed_text(options.query),
                                     options.n_matches)

\* the query came from standard input, which held more than the query's
\* line, and so did the same text through -q with whitespace around it
C13_Witness ==
    /\ pc = "done"
    /\ query_input.query = None
    /\ query_input.stdin = <<"a", "\n", "b">>
    /\ options.query = query_prefix \o <<"a">>
    /\ options.query = get_options_query(<<" ", "a">>, << >>)
    /\ results # << >>

(***************************************************************************)
(* C14  No row of table document changes on a failed content read: after a *)
(* run in which read_text failed on a path that was to be embedded, the    *)
(* row of that path is what it was before the run (none if it had none).   *)
(***************************************************************************)
failed_reads(metadatas) ==
    { metadatas[i].path : i \in { n \in 1..Len(metadatas) :
        raises_read_text(<< metadatas[n] >>) } }

C14_NoRecordAfterReadFailure ==
    (pc = "failed" /\ failure = "OSError") =>
        \A p \in failed_reads(need_embedding_metadatas) :
            same_record(p, document, document0)

(***************************************************************************)
(* C15  Every complete run heals the index: whatever runs came before, a   *)
(* run that completes (no file changing while it runs) leaves every path   *)
(* it discovered with a row in table document that has the file's mtime    *)
(* and a digest that has a row in table embedding.                         *)
(***************************************************************************)
C15_CompleteRunHeals ==
    (pc = "done" /\ races = 0) =>
        \A p \in discovered :
            /\ p \in DOMAIN document
            /\ document[p].mtime = fs[p].mtime
            /\ document[p].digest \in digests_of(embedding)

(***************************************************************************)
(* C16  Rows are never lost or rewritten outside the outdated set: a run   *)
(* deletes no row of table document or of table embedding, changes no      *)
(* (digest, vec) row that table embedding held when the run started, and   *)
(* changes the row of table document only of paths it classified outdated: *)
(* the rows of undiscovered paths and of current paths stay as they were.  *)
(* (Table document has one row per path by construction: path is UNIQUE.)  *)
(***************************************************************************)
\* p was discovered and its row had the file's mtime when the run started
current(p) ==
    /\ p \in discovered
    /\ p \in DOMAIN document0
    /\ fs[p].exists
    /\ document0[p].mtime = fs[p].mtime

C16_OnlyOutdatedRowsChange ==
    /\ DOMAIN document0 \subseteq DOMAIN document
    /\ Len(embedding0) <= Len(embedding)
    /\ SubSeq(embedding, 1, Len(embedding0)) = embedding0
    /\ \A p \in Paths \ paths_of(updated_text_file_metadatas) :
           same_record(p, document, document0)
    /\ pc # "idle" =>
           \A p \in Paths \ discovered : same_record(p, document, document0)
    /\ races = 0 =>
           \A p \in Paths : current(p) => same_record(p, document, document0)

\* a run that found one path current and one outdated, with a cache that
\* was not empty, has completed and has added rows to both tables
C16_Witness ==
    /\ pc = "done"
    /\ races = 0
    /\ \E p \in Paths : current(p)
    /\ \E p \in discovered : p \notin DOMAIN document0 /\ p \in DOMAIN document
    /\ embedding0 # << >>
    /\ Len(embedding) > Len(embedding0)

(***************************************************************************)
(* C17  Cache-history independence of results: for the files on disk, the  *)
(* discovered paths, the query and k of a run that completes, the rows     *)
(* printed are those a run over an empty cache prints, whatever the cache  *)
(* held when the run started.  A run over an empty cache embeds every      *)
(* discovered file, so it prints the discovered paths by distance of their *)
(* content to the query (all of them, or the first k, by the join order).  *)
(* Stated for runs whose paths are distinct, readable and of distinct      *)
(* content, and whose rows in table document carry the digest of the file. *)
(***************************************************************************)
fresh_results ==
    LET ps == SelectSeq([i \in 1..NumPaths |-> i],
                        LAMBDA p : p \in discovered)
    IN  order_by_distance(
            [i \in 1..Len(ps) |->
                [path |-> ps[i],
                 distance |-> distance(embed_text(fs[ps[i]].content),
                                       query_embed(options))]])

comparable_run ==
    /\ races = 0
    /\ \A i, j \in 1..Len(all_text_file_paths) :
          i # j => /\ all_text_file_paths[i] # all_text_file_paths[j]
                   /\ fs[all_text_file_paths[i]].content
                          # fs[all_text_file_paths[j]].content
    /\ \A p \in discovered :
          /\ fs[p].exists /\ fs[p].readable
          /\ p \in DOMAIN document
          /\ document[p].digest = digest(fs[p].content)

C17_CacheHistoryIndependence ==
    (pc = "done" /\ comparable_run) =>
        \/ results = fresh_results
        \/ results = first_k(fresh_results, options.n_matches)

(***************************************************************************)
(* C18  Digest/vector consistency under interleaved file edits: every row  *)
(* (digest, vec) of table embedding has the vector of the content the      *)
(* digest is the digest of, also when a file is rewritten between the read *)
(* that digests it and the read that takes its text for embedding.         *)
(***************************************************************************)
C18_DigestVectorConsistency ==
    \A i \in 1..Len(embedding) :
        \E c \in Contents :
            /\ embedding[i].digest = digest(c)
            /\ embedding[i].vec = embed_text(c)

=============================================================================
